---- MODULE Spec2Model ----
(***************************************************************************)
(* A model of bot.py, the AdsGram Telegram bot: the start-up               *)
(* configuration check, the per-user cooldown map, the ad fetcher, the     *)
(* renderer and the four handlers.  One action is one synchronous segment  *)
(* of a handler, from its entry (or from the await it resumes at) to its   *)
(* next await or its end: asyncio switches coroutines only at an await.    *)
(* requests.get is a blocking call made on the thread of the event loop:   *)
(* the segment that holds it is cut in two at the call, and between the    *)
(* two halves nothing else runs; the wall clock advances by the time the   *)
(* fetch takes.                                                            *)
(*                                                                         *)
(* Time is in whole seconds.  The clock is the value of time.time(); it    *)
(* never runs backwards.  Strings are TLA+ strings; a Python value that is *)
(* missing from a dict is Absent, JSON null is Null.                       *)
(***************************************************************************)
EXTENDS Integers, Sequences, FiniteSets, TLC

\* ------------------------------------------------------------------------
\* Program constants
\* ------------------------------------------------------------------------
COOLDOWN_SECONDS == 8

FETCH_TIMEOUT == 10

HTTP_OK == 200

FALLBACK_URL == "https://t.me"

SPONSORED == "Sponsored"

\* The texts of the replies, without their emoji.
WELCOME_TEXT == "Welcome! Tap the button to view a sponsored ad and support the bot."

HELP_TEXT == "Commands: /ads, /start"

WAIT_NOTICE == "Please wait a few seconds before requesting another ad."

NO_AD_NOTICE == "No ad available right now. Please try again shortly."

SHOW_ADS == "show_ads"

\* The names the module passes to os.getenv, and the names its comments document.
TOKEN_KEY == "7016999277:AAEa5b_-_AxuhXp1U6JeP_eO822ORHHc0L4"

BLOCK_KEY == "int-14249"

\* ------------------------------------------------------------------------
\* Bounds of the model
\* ------------------------------------------------------------------------
\* Events (updates) delivered to the bot in one run.
MaxEvents == 3

\* The last clock value of a run.
MaxClock == 23

\* The clock value at which the process starts (any realistic Unix time is
\* far above the cooldown).
StartClock == 8

Users == {1, 2}

\* How far the clock moves between two steps of the bot.
TickSteps == {COOLDOWN_SECONDS - 1, COOLDOWN_SECONDS}

\* How long one requests.get may take (it is bounded by the timeout).
FetchDelays == {d \in {0, COOLDOWN_SECONDS} : d <= FETCH_TIMEOUT}

\* ------------------------------------------------------------------------
\* Python values
\* ------------------------------------------------------------------------
Absent == "<absent>"

Null == "<null>"

\* Optional[dict]: None is the empty tuple, a dict d is <<d>>.
None == <<>>

\* No time (in the log: no ad message was issued).
NoTime == 0 - 1

Some(d) == <<d>>

\* Python truthiness of a JSON scalar (or of a missing key read with .get).
Truthy(v) == v \notin {Absent, Null, ""}

\* dict.get(key, default)
Get(d, key, default) == IF d[key] = Absent THEN default ELSE d[key]

\* dict.get(key): None when the key is missing.
GetOrNone(d, key) == Get(d, key, Null)

AdKeys == {"button_name", "click_url", "button_reward_name", "reward_url", "text_html", "image_url"}

VARIABLES
    env,          \* the process environment: name -> value or Absent
    phase,        \* "import" | "config_error" | "polling"
    clock,        \* time.time()
    _last_ad_at,  \* the cooldown map: a function on the users that have an entry
    inv,          \* the handler invocations, by number: those running, and
                  \* those ended since the last update arrived
    seen,         \* the number of updates that have arrived
    reqs          \* the log of the ad requests, in the order of their cooldown checks

vars == <<env, phase, clock, _last_ad_at, inv, seen, reqs>>

\* ------------------------------------------------------------------------
\* Start-up configuration (module level code and main)
\* ------------------------------------------------------------------------
\* A string of the environment is a tuple of characters; os.getenv gives None
\* (the empty tuple) for a name that is not set and Some(string) otherwise.
Digits == {"0", "1", "2", "3", "4", "5", "6", "7", "8", "9"}

EnvNames == {TOKEN_KEY, BLOCK_KEY, "BOT_TOKEN", "BLOCK_ID"}

GoodToken == Some(<<"t", "k">>)

GoodBlock == Some(<<"4", "2">>)

EmptyEnv == [name \in EnvNames |-> None]

\* The environments a run may start in: nothing set; the documented names
\* set; the names the code reads set (well, with an empty token, with an
\* empty block id, with a block id that is not numeric).
Envs ==
    { EmptyEnv,
      [EmptyEnv EXCEPT !["BOT_TOKEN"] = GoodToken, !["BLOCK_ID"] = GoodBlock],
      [EmptyEnv EXCEPT ![TOKEN_KEY] = GoodToken, ![BLOCK_KEY] = GoodBlock],
      [EmptyEnv EXCEPT ![TOKEN_KEY] = Some(<<>>), ![BLOCK_KEY] = GoodBlock],
      [EmptyEnv EXCEPT ![TOKEN_KEY] = GoodToken],
      [EmptyEnv EXCEPT ![TOKEN_KEY] = GoodToken, ![BLOCK_KEY] = Some(<<>>)],
      [EmptyEnv EXCEPT ![TOKEN_KEY] = GoodToken, ![BLOCK_KEY] = Some(<<"4", "x">>)] }

os_getenv(e, name) == e[name]

\* `not value` for an Optional[str]: None and "" are falsy.
NotStr(o) == o = None \/ o[1] = <<>>

\* A check of the first character only.
isdigit_first(str) == Len(str) > 0 /\ str[1] \in Digits

\* str.isdigit(): not empty and every character a digit.
isdigit(str) == Len(str) > 0 /\ \A k \in 1..Len(str) : str[k] \in Digits

BOT_TOKEN == os_getenv(env, TOKEN_KEY)

BLOCK_ID == os_getenv(env, BLOCK_KEY)

\* The two checks of lines 29-32: TRUE when neither raises.
ConfigValid ==
    /\ ~NotStr(BOT_TOKEN)
    /\ ~(NotStr(BLOCK_ID) \/ ~isdigit(BLOCK_ID[1]))

\* ------------------------------------------------------------------------
\* The cooldown tracker
\* ------------------------------------------------------------------------
\* _last_ad_at.get(user_id, 0)
LastOf(map, user_id) == IF user_id \in DOMAIN map THEN map[user_id] ELSE 0

\* Variants of _cooldown_ok with a slip in them: the time is stored with
\* setdefault (only a user's first allowed request is recorded); the
\* comparison is strict; the time is not stored at all.
_cooldown_ok_setdefault(map, user_id, now) ==
    IF now - LastOf(map, user_id) >= COOLDOWN_SECONDS
    THEN [ok |-> TRUE,
          map |-> [u \in DOMAIN map \cup {user_id} |-> IF u \in DOMAIN map THEN map[u] ELSE now]]
    ELSE [ok |-> FALSE, map |-> map]

_cooldown_ok_strict(map, user_id, now) ==
    IF now - LastOf(map, user_id) > COOLDOWN_SECONDS
    THEN [ok |-> TRUE,
          map |-> [u \in DOMAIN map \cup {user_id} |-> IF u = user_id THEN now ELSE map[u]]]
    ELSE [ok |-> FALSE, map |-> map]

_cooldown_ok_no_record(map, user_id, now) ==
    [ok |-> now - LastOf(map, user_id) >= COOLDOWN_SECONDS, map |-> map]

\* Further variants: the time is stored on a rejected request too; the map is
\* replaced by one that holds the user of the request alone.
_cooldown_ok_refresh(map, user_id, now) ==
    [ok |-> now - LastOf(map, user_id) >= COOLDOWN_SECONDS,
     map |-> [u \in DOMAIN map \cup {user_id} |-> IF u = user_id THEN now ELSE map[u]]]

_cooldown_ok_clear_others(map, user_id, now) ==
    IF now - LastOf(map, user_id) >= COOLDOWN_SECONDS
    THEN [ok |-> TRUE, map |-> [u \in {user_id} |-> now]]
    ELSE [ok |-> FALSE, map |-> map]

\* _cooldown_ok: the value returned and the map it leaves, as one call.
_cooldown_ok(map, user_id, now) ==
    IF now - LastOf(map, user_id) >= COOLDOWN_SECONDS
    THEN [ok |-> TRUE,
          map |-> [u \in DOMAIN map \cup {user_id} |-> IF u = user_id THEN now ELSE map[u]]]
    ELSE [ok |-> FALSE, map |-> map]

\* ------------------------------------------------------------------------
\* The ad fetcher
\* ------------------------------------------------------------------------
\* What requests.get does: it raises (exc), or gives a status and a body.  A
\* body is text that is not JSON ("invalid"), JSON that is not an object
\* ("list") or a JSON object ("dict", with its fields in data).
NoFields == [k \in AdKeys |-> Absent]

Response(exc, status, kind, data) == [exc |-> exc, status |-> status, kind |-> kind, data |-> data]

\* No response: the request made no fetch.
NoResponse == Response(FALSE, 0, "none", NoFields)

\* The try block without the check of button_name.
try_body_no_label_check(resp) ==
    IF resp.exc THEN [raised |-> TRUE, ad |-> None]
    ELSE IF resp.status # HTTP_OK THEN [raised |-> FALSE, ad |-> None]
    ELSE IF resp.kind = "invalid" THEN [raised |-> TRUE, ad |-> None]
    ELSE IF resp.kind # "dict" THEN [raised |-> FALSE, ad |-> None]
    ELSE [raised |-> FALSE, ad |-> Some(resp.data)]

\* The body of the try block (lines 62-71): it returns an Optional[dict], or
\* an exception is raised in it: by requests.get (a transport error or the
\* timeout) or by resp.json() (the body is not JSON).
try_body(resp) ==
    IF resp.exc THEN [raised |-> TRUE, ad |-> None]
    ELSE IF resp.status # HTTP_OK THEN [raised |-> FALSE, ad |-> None]
    ELSE IF resp.kind = "invalid" THEN [raised |-> TRUE, ad |-> None]
    ELSE IF resp.kind # "dict" \/ ~Truthy(GetOrNone(resp.data, "button_name"))
         THEN [raised |-> FALSE, ad |-> None]
    ELSE [raised |-> FALSE, ad |-> Some(resp.data)]

\* _fetch_ad with no except clause (the exception leaves it), and with a
\* second requests.get after a failed one.
_fetch_ad_no_except(resp) ==
    LET body == try_body(resp)
    IN  [raised |-> body.raised, ad |-> body.ad, attempts |-> 1]

_fetch_ad_retry(resp) ==
    LET body == try_body(resp)
    IN  IF body.raised
        THEN [raised |-> FALSE, ad |-> None, attempts |-> 2]
        ELSE [raised |-> FALSE, ad |-> body.ad, attempts |-> 1]

\* _fetch_ad: the try block and its `except Exception`, which returns None.
\* attempts is the number of requests.get calls made.
_fetch_ad(resp) ==
    LET body == try_body(resp)
    IN  IF body.raised
        THEN [raised |-> FALSE, ad |-> None, attempts |-> 1]
        ELSE [raised |-> FALSE, ad |-> body.ad, attempts |-> 1]

\* ------------------------------------------------------------------------
\* The outbound calls of the Telegram API and the renderer
\* ------------------------------------------------------------------------
Button(text, url, callback_data) == [text |-> text, url |-> url, callback_data |-> callback_data]

Call(op, text, photo, parse_mode, buttons, protect) ==
    [op |-> op, text |-> text, photo |-> photo, parse_mode |-> parse_mode,
     buttons |-> buttons, protect_content |-> protect]

\* query.answer()
AnswerCall == Call("answer", Absent, Absent, Absent, <<>>, FALSE)

\* reply_text(text) with no keyboard
Notice(text) == Call("reply_text", text, Absent, Absent, <<>>, FALSE)

\* The keyboard with the reward button added when either reward field is set.
build_buttons_or(ad) ==
    LET primary == <<Button(ad["button_name"], Get(ad, "click_url", FALLBACK_URL), Absent)>>
    IN  IF Truthy(GetOrNone(ad, "button_reward_name")) \/ Truthy(GetOrNone(ad, "reward_url"))
        THEN <<primary, <<Button(ad["button_reward_name"], ad["reward_url"], Absent)>>>>
        ELSE <<primary>>

\* The keyboard of an ad: one row per button (lines 114-117).
build_buttons(ad) ==
    LET primary == <<Button(ad["button_name"], Get(ad, "click_url", FALLBACK_URL), Absent)>>
    IN  IF Truthy(GetOrNone(ad, "button_reward_name")) /\ Truthy(GetOrNone(ad, "reward_url"))
        THEN <<primary, <<Button(ad["button_reward_name"], ad["reward_url"], Absent)>>>>
        ELSE <<primary>>

\* The ad message with protect_content left out of the text branch.
render_unprotected_text(ad) ==
    LET text_html == IF Truthy(GetOrNone(ad, "text_html")) THEN ad["text_html"] ELSE SPONSORED
        image_url == GetOrNone(ad, "image_url")
    IN  IF Truthy(image_url)
        THEN Call("reply_photo", text_html, image_url, "HTML", build_buttons(ad), TRUE)
        ELSE Call("reply_text", text_html, Absent, "HTML", build_buttons(ad), FALSE)

\* The ad message (lines 119-139): the call made on reply_target.
render(ad) ==
    LET text_html == IF Truthy(GetOrNone(ad, "text_html")) THEN ad["text_html"] ELSE SPONSORED
        image_url == GetOrNone(ad, "image_url")
    IN  IF Truthy(image_url)
        THEN Call("reply_photo", text_html, image_url, "HTML", build_buttons(ad), TRUE)
        ELSE Call("reply_text", text_html, Absent, "HTML", build_buttons(ad), TRUE)

\* ------------------------------------------------------------------------
\* Inputs of the handlers
\* ------------------------------------------------------------------------
ViewAd == [NoFields EXCEPT !["button_name"] = "View"]

\* The responses of the ad network a run of the bot meets: a transport error
\* and a 200 with an ad.  (Every response is met in SpecFetch.)
Responses ==
    { Response(TRUE, 0, "invalid", NoFields),
      Response(FALSE, HTTP_OK, "dict", ViewAd) }

CallbackData == {SHOW_ADS, "other"}

\* ------------------------------------------------------------------------
\* The handlers
\* ------------------------------------------------------------------------
\* A handler invocation: which handler, for whom, where it stands ("answer":
\* at `await query.answer()`; "fetch": inside requests.get; "reply": at the
\* await of its reply; "done": returned; "raised": ended by an exception),
\* what _cooldown_ok gave it, what its fetch met and gave, and the API calls
\* it made, in order.
Invocation(kind, user, data) ==
    [kind |-> kind, user |-> user, data |-> data, pc |-> "entry",
     cooldown |-> "none", fetches |-> 0, resp |-> NoResponse, ad |-> None,
     calls |-> <<>>]

\* The invocations that have not ended.
Live == {i \in DOMAIN inv : inv[i].pc \in {"answer", "fetch", "reply"}}

\* _fetch_ad is a plain function called from the coroutine, and requests.get
\* in it is a synchronous call: it runs on the thread of the event loop, and
\* until it has returned the loop takes up no update and resumes no coroutine.
Blocked == \E i \in DOMAIN inv : inv[i].pc = "fetch"

\* The updates are numbered as they arrive.  The new invocation joins the
\* live ones; the record of an ended one is dropped.
Admit(rec) == [i \in Live \cup {seen + 1} |-> IF i = seen + 1 THEN rec ELSE inv[i]]

Arrives == phase = "polling" /\ seen < MaxEvents /\ ~Blocked

\* Module level code and main(): the configuration check, then the handlers
\* are registered and run_polling is entered.
main ==
    /\ phase = "import"
    /\ phase' = IF ConfigValid THEN "polling" ELSE "config_error"
    /\ UNCHANGED <<env, clock, _last_ad_at, inv, seen, reqs>>

\* Time passes while the bot waits (for an update, or at an await).  The
\* time a fetch takes is counted when the fetch returns.
Tick(d) ==
    /\ phase = "polling"
    /\ ~Blocked
    /\ clock + d <= MaxClock
    /\ clock' = clock + d
    /\ UNCHANGED <<env, phase, _last_ad_at, inv, seen, reqs>>

\* start: the welcome message with the Show Ads button.
start(u) ==
    /\ Arrives
    /\ inv' = Admit([Invocation("start", u, "") EXCEPT
                !.pc = "reply",
                !.calls = <<Call("reply_text", WELCOME_TEXT, Absent, Absent,
                                 <<<<Button("Show Ads", Absent, SHOW_ADS)>>>>, FALSE)>>])
    /\ seen' = seen + 1
    /\ UNCHANGED <<env, phase, clock, _last_ad_at, reqs>>

\* help_cmd: the static help text.
help_cmd(u) ==
    /\ Arrives
    /\ inv' = Admit([Invocation("help", u, "") EXCEPT
                !.pc = "reply", !.calls = <<Notice(HELP_TEXT)>>])
    /\ seen' = seen + 1
    /\ UNCHANGED <<env, phase, clock, _last_ad_at, reqs>>

\* show_ads_common that goes on to the fetch after the wait notice (the
\* `return` of line 106 left out).
show_ads_common_no_return(base, i) ==
    LET r == base[i]
        now == clock
        cd == _cooldown_ok(_last_ad_at, r.user, now)
    IN  /\ _last_ad_at' = cd.map
        /\ reqs' = Append(reqs, [id |-> i, user |-> r.user, at |-> now,
                                 known |-> r.user \in DOMAIN _last_ad_at,
                                 ok |-> cd.ok, fetches |-> 0, ad_at |-> NoTime])
        /\ inv' = [base EXCEPT ![i] = [r EXCEPT
                      !.pc = "fetch",
                      !.cooldown = IF cd.ok THEN "ok" ELSE "wait",
                      !.calls = IF cd.ok THEN @ ELSE Append(@, Notice(WAIT_NOTICE))]]
        /\ UNCHANGED <<env, phase, clock>>

\* show_ads_common, for invocation i of `base`, from its entry to the call of
\* _fetch_ad (lines 96-108): the cooldown check, then the wait notice when
\* the request is rejected, the fetch when it is allowed.  The log entry of
\* the request holds the time of the check (the `now` of _cooldown_ok),
\* whether the user had an entry in the map and the result; the number of
\* requests.get calls and the time of the ad message (NoTime when there is
\* none) are filled in when the fetch returns.
show_ads_common(base, i) ==
    LET r == base[i]
        now == clock
        cd == _cooldown_ok(_last_ad_at, r.user, now)
    IN  /\ _last_ad_at' = cd.map
        /\ reqs' = Append(reqs, [id |-> i, user |-> r.user, at |-> now,
                                 known |-> r.user \in DOMAIN _last_ad_at,
                                 ok |-> cd.ok, fetches |-> 0, ad_at |-> NoTime])
        /\ inv' = [base EXCEPT ![i] = [r EXCEPT
                      !.pc = IF cd.ok THEN "fetch" ELSE "reply",
                      !.cooldown = IF cd.ok THEN "ok" ELSE "wait",
                      !.calls = IF cd.ok THEN @ ELSE Append(@, Notice(WAIT_NOTICE))]]
        /\ UNCHANGED <<env, phase, clock>>

\* The fetch with the cooldown entry of the user taken back when no ad came.
fetch_returns_forget(i, resp, d) ==
    /\ i \in DOMAIN inv
    /\ inv[i].pc = "fetch"
    /\ clock + d <= MaxClock
    /\ LET r == inv[i]
           got == _fetch_ad(resp)
           call == IF got.ad = None THEN Notice(NO_AD_NOTICE) ELSE render(got.ad[1])
       IN  /\ clock' = clock + d
           /\ reqs' = [k \in DOMAIN reqs |->
                          IF reqs[k].id = i
                          THEN [reqs[k] EXCEPT
                                   !.fetches = got.attempts,
                                   !.ad_at = IF got.raised \/ got.ad = None
                                             THEN NoTime ELSE clock + d]
                          ELSE reqs[k]]
           /\ inv' = [inv EXCEPT ![i] = [r EXCEPT
                         !.pc = IF got.raised THEN "raised" ELSE "reply",
                         !.fetches = got.attempts,
                         !.resp = resp,
                         !.ad = got.ad,
                         !.calls = IF got.raised THEN @ ELSE Append(@, call)]]
           /\ _last_ad_at' = IF got.ad = None
                             THEN [u \in DOMAIN _last_ad_at \ {r.user} |-> _last_ad_at[u]]
                             ELSE _last_ad_at
    /\ UNCHANGED <<env, phase, seen>>

\* show_ads_common from the call of _fetch_ad to its await (lines 108-139):
\* the fetch takes d seconds and meets response resp, then the no-ad notice
\* or the ad message is issued.
fetch_returns(i, resp, d) ==
    /\ i \in DOMAIN inv
    /\ inv[i].pc = "fetch"
    /\ clock + d <= MaxClock
    /\ LET r == inv[i]
           got == _fetch_ad(resp)
           call == IF got.ad = None THEN Notice(NO_AD_NOTICE) ELSE render(got.ad[1])
       IN  /\ clock' = clock + d
           /\ reqs' = [k \in DOMAIN reqs |->
                          IF reqs[k].id = i
                          THEN [reqs[k] EXCEPT
                                   !.fetches = got.attempts,
                                   !.ad_at = IF got.raised \/ got.ad = None
                                             THEN NoTime ELSE clock + d]
                          ELSE reqs[k]]
           /\ inv' = [inv EXCEPT ![i] = [r EXCEPT
                         !.pc = IF got.raised THEN "raised" ELSE "reply",
                         !.fetches = got.attempts,
                         !.resp = resp,
                         !.ad = got.ad,
                         !.calls = IF got.raised THEN @ ELSE Append(@, call)]]
           /\ _last_ad_at' = _last_ad_at
    /\ UNCHANGED <<env, phase, seen>>

\* ads_cmd: /ads.
ads_cmd(u) ==
    /\ Arrives
    /\ show_ads_common(Admit(Invocation("ads", u, "")), seen + 1)
    /\ seen' = seen + 1

\* button_cb that goes on without query.answer().
button_cb_no_answer(u, data) ==
    /\ Arrives
    /\ inv' = Admit([Invocation("button", u, data) EXCEPT !.pc = "answer"])
    /\ seen' = seen + 1
    /\ UNCHANGED <<env, phase, clock, _last_ad_at, reqs>>

\* button_cb up to `await query.answer()`.
button_cb(u, data) ==
    /\ Arrives
    /\ inv' = Admit([Invocation("button", u, data) EXCEPT
                !.pc = "answer", !.calls = <<AnswerCall>>])
    /\ seen' = seen + 1
    /\ UNCHANGED <<env, phase, clock, _last_ad_at, reqs>>

\* query.answer() returned: button_cb goes on.
button_cb_resume(i) ==
    /\ i \in DOMAIN inv
    /\ inv[i].pc = "answer"
    /\ ~Blocked
    /\ seen' = seen
    /\ IF inv[i].data = SHOW_ADS
       THEN show_ads_common(inv, i)
       ELSE /\ inv' = [inv EXCEPT ![i].pc = "done"]
            /\ UNCHANGED <<env, phase, clock, _last_ad_at, reqs>>

\* The awaited reply returned: the handler returns.
reply_returns(i) ==
    /\ i \in DOMAIN inv
    /\ inv[i].pc = "reply"
    /\ ~Blocked
    /\ inv' = [inv EXCEPT ![i].pc = "done"]
    /\ UNCHANGED <<env, phase, clock, _last_ad_at, seen, reqs>>

\* The awaited call (query.answer, reply_text, reply_photo) raised: no
\* handler has a try block around it, so the exception leaves the handler.
await_raises(i) ==
    /\ i \in DOMAIN inv
    /\ inv[i].pc \in {"answer", "reply"}
    /\ ~Blocked
    /\ inv' = [inv EXCEPT ![i].pc = "raised"]
    /\ UNCHANGED <<env, phase, clock, _last_ad_at, seen, reqs>>

\* ------------------------------------------------------------------------
\* The specifications
\* ------------------------------------------------------------------------
InitAt(t) ==
    /\ env \in Envs
    /\ phase = "import"
    /\ clock = t
    /\ _last_ad_at = <<>>
    /\ inv = <<>>
    /\ seen = 0
    /\ reqs = <<>>

Init == InitAt(StartClock)

\* Application.builder() is left at its default, concurrent_updates off: the
\* next update is taken up when the handler of the last one has ended.
OneAtATime == Live = {}

Next ==
    \/ main
    \/ \E d \in TickSteps : Tick(d)
    \/ \E u \in Users : OneAtATime /\ start(u)
    \/ \E u \in Users : OneAtATime /\ help_cmd(u)
    \/ \E u \in Users : OneAtATime /\ ads_cmd(u)
    \/ \E u \in Users, data \in CallbackData : OneAtATime /\ button_cb(u, data)
    \/ \E i \in 1..MaxEvents : button_cb_resume(i)
    \/ \E i \in 1..MaxEvents, resp \in Responses, d \in FetchDelays : fetch_returns(i, resp, d)
    \/ \E i \in 1..MaxEvents : reply_returns(i)
    \/ \E i \in 1..MaxEvents : await_raises(i)

Spec == Init /\ [][Next]_vars

\* The same bot started on a machine whose clock stands at the epoch.
InitEpoch == InitAt(0)

SpecEpoch == InitEpoch /\ [][Next]_vars

\* The same handlers under a host that runs them concurrently: an update is
\* taken up while earlier handlers stand at an await.
MaxConcurrent == 2

Overlapping == seen < MaxConcurrent

NextConcurrent ==
    \/ main
    \/ \E d \in TickSteps : Tick(d)
    \/ \E u \in Users : Overlapping /\ start(u)
    \/ \E u \in Users : Overlapping /\ help_cmd(u)
    \/ \E u \in Users : Overlapping /\ ads_cmd(u)
    \/ \E u \in Users, data \in CallbackData : Overlapping /\ button_cb(u, data)
    \/ \E i \in 1..MaxEvents : button_cb_resume(i)
    \/ \E i \in 1..MaxEvents, resp \in Responses, d \in FetchDelays : fetch_returns(i, resp, d)
    \/ \E i \in 1..MaxEvents : reply_returns(i)
    \/ \E i \in 1..MaxEvents : await_raises(i)

SpecConcurrent == Init /\ [][NextConcurrent]_vars

\* One ad request, met by any response of the ad network: the fetcher and
\* the renderer on all their inputs.
Sample ==
    [button_name |-> "View", click_url |-> "https://click", button_reward_name |-> "Claim",
     reward_url |-> "https://reward", text_html |-> "<b>Ad</b>", image_url |-> "https://img"]

Payloads == {p \in [AdKeys -> {Absent, Null, "", "set"}] : TRUE}

Filled(p) == [k \in AdKeys |-> IF p[k] = "set" THEN Sample[k] ELSE p[k]]

Statuses == {HTTP_OK, 201, 404, 500}

AllResponses ==
    {Response(TRUE, 0, "invalid", NoFields)}
    \cup {Response(FALSE, st, kind, NoFields) : st \in Statuses, kind \in {"invalid", "list"}}
    \cup {Response(FALSE, st, "dict", Filled(p)) : st \in Statuses, p \in Payloads}

NextFetch ==
    \/ main
    \/ \E u \in Users : seen = 0 /\ ads_cmd(u)
    \/ /\ Blocked
       /\ \E resp \in AllResponses : fetch_returns(1, resp, 0)
    \/ \E i \in {1} : reply_returns(i)
    \/ \E i \in {1} : await_raises(i)

SpecFetch == Init /\ [][NextFetch]_vars

\* ------------------------------------------------------------------------
\* The claims
\* ------------------------------------------------------------------------
\* The time of an ad request is the `now` its cooldown check read; the log
\* holds the requests in the order of their checks.
Logged == 1..Len(reqs)

SameUser(i, j) == reqs[i].user = reqs[j].user

Gap(i, j) == reqs[j].at - reqs[i].at

\* No request of the same user lies between i and j.
Successive(i, j) ==
    /\ i < j
    /\ SameUser(i, j)
    /\ \A k \in Logged : (i < k /\ k < j) => reqs[k].user # reqs[i].user

IsAdRequest(r) == r.kind = "ads" \/ (r.kind = "button" /\ r.data = SHOW_ADS)

\* The replies of an invocation: its calls other than query.answer().
Replies(r) == SelectSeq(r.calls, LAMBDA c : c.op # "answer")

\* C1, as stated: of any two requests of a user less than 8 seconds apart the
\* later is rejected and fetches nothing, whatever the earlier one's result.
C1_AnyTwoClose ==
    \A i, j \in Logged :
        (i < j /\ SameUser(i, j) /\ Gap(i, j) < COOLDOWN_SECONDS)
            => (~reqs[j].ok /\ reqs[j].fetches = 0)

\* C1, amended: of any two requests of a user less than 8 seconds apart of
\* which the earlier was allowed, the later is rejected and fetches nothing.
C1_CloseAfterAllowed ==
    \A i, j \in Logged :
        (i < j /\ SameUser(i, j) /\ reqs[i].ok /\ Gap(i, j) < COOLDOWN_SECONDS)
            => (~reqs[j].ok /\ reqs[j].fetches = 0)

\* A request made 7 seconds after an allowed one of the same user: it is
\* rejected, it fetched nothing and its handler issued the wait notice.
C1_Witness ==
    \E i, j \in Logged :
        /\ i < j /\ SameUser(i, j)
        /\ reqs[i].ok /\ ~reqs[j].ok /\ reqs[j].fetches = 0
        /\ Gap(i, j) = COOLDOWN_SECONDS - 1
        /\ reqs[j].id \in DOMAIN inv
        /\ Replies(inv[reqs[j].id]) = <<Notice(WAIT_NOTICE)>>

\* C2, as stated: two successive requests of a user at least 8 seconds apart
\* are both allowed.
C2_BothAllowed ==
    \A i, j \in Logged :
        (Successive(i, j) /\ Gap(i, j) >= COOLDOWN_SECONDS) => (reqs[i].ok /\ reqs[j].ok)

\* C2, amended: of two successive requests of a user at least 8 seconds
\* apart, the later is allowed, whatever came before.
C2_LaterAllowed ==
    \A i, j \in Logged :
        (Successive(i, j) /\ Gap(i, j) >= COOLDOWN_SECONDS) => reqs[j].ok

\* Two successive requests exactly 8 seconds apart, the earlier rejected, the
\* later allowed.
C2_Witness ==
    \E i, j \in Logged :
        /\ Successive(i, j) /\ Gap(i, j) = COOLDOWN_SECONDS
        /\ ~reqs[i].ok /\ reqs[j].ok

\* C3: a request of a user with no entry in the map is allowed, at every
\* clock value, and the call records the current time for the user.
C3_NoEntryAllowed ==
    \A k \in Logged :
        ~reqs[k].known =>
            /\ reqs[k].ok
            /\ k = Len(reqs) =>
                  /\ reqs[k].user \in DOMAIN _last_ad_at
                  /\ _last_ad_at[reqs[k].user] = reqs[k].at

C5_ServedApart ==
    \A i, j \in Logged :
        (i < j /\ SameUser(i, j) /\ reqs[i].ad_at # NoTime /\ reqs[j].ad_at # NoTime)
            => reqs[j].ad_at - reqs[i].ad_at >= COOLDOWN_SECONDS

\* C6: a fetch is made only for an ad request that passed the cooldown check,
\* and at most once for it; /start, /help, taps with other callback data and
\* rejected requests fetch nothing.
C6_FetchOnlyWhenAllowed ==
    /\ \A i \in DOMAIN inv :
          /\ inv[i].fetches <= 1
          /\ inv[i].fetches > 0 => (IsAdRequest(inv[i]) /\ inv[i].cooldown = "ok")
    /\ \A k \in Logged :
          /\ reqs[k].fetches <= 1
          /\ ~reqs[k].ok => reqs[k].fetches = 0

\* An allowed request whose fetch failed with a transport error: one attempt
\* was made, there is no ad.
C6_Witness ==
    \E i \in DOMAIN inv :
        /\ IsAdRequest(inv[i]) /\ inv[i].cooldown = "ok" /\ inv[i].resp.exc
        /\ inv[i].fetches = 1 /\ inv[i].ad = None /\ inv[i].pc = "done"

\* The responses C7 names: a status that is not 2xx, a body that does not
\* parse, a body without button_name, a transport or timeout exception.
Failing(resp) ==
    \/ resp.exc
    \/ resp.status \notin 200..299
    \/ resp.kind # "dict"
    \/ resp.data["button_name"] = Absent

\* C7: on every such response _fetch_ad returns None without raising, and
\* the handler replies with the no-ad notice and with nothing else.
C7_FetchNeverRaises ==
    \A i \in DOMAIN inv :
        (inv[i].cooldown = "ok" /\ inv[i].pc # "fetch" /\ Failing(inv[i].resp))
            => /\ inv[i].ad = None
               /\ Replies(inv[i]) = <<Notice(NO_AD_NOTICE)>>

\* A request whose fetch met a transport error and one whose body was not
\* JSON, answered with the notice.
C7_Witness ==
    \E i \in DOMAIN inv :
        /\ inv[i].cooldown = "ok"
        /\ inv[i].resp.exc \/ (inv[i].resp.status = HTTP_OK /\ inv[i].resp.kind = "invalid")
        /\ inv[i].pc = "done"
        /\ Replies(inv[i]) = <<Notice(NO_AD_NOTICE)>>

\* A body that is a JSON object with a non-empty button_name.
HasLabel(resp) ==
    resp.kind = "dict" /\ resp.data["button_name"] \notin {Absent, Null, ""}

\* C8, as stated: the payload is returned exactly when the status is 2xx and
\* the body is an object with a non-empty button_name.
C8_PayloadIff2xx ==
    \A i \in DOMAIN inv :
        inv[i].cooldown = "ok" =>
            (inv[i].ad # None <=>
                (~inv[i].resp.exc /\ inv[i].resp.status \in 200..299 /\ HasLabel(inv[i].resp)))

\* C8, amended: the payload is returned, unchanged, exactly when the status
\* is 200 and the body is an object with a non-empty button_name; the label
\* of the button that is rendered is never empty.
C8_PayloadIff200 ==
    \A i \in DOMAIN inv :
        inv[i].cooldown = "ok" =>
            /\ inv[i].ad # None <=>
                  (~inv[i].resp.exc /\ inv[i].resp.status = HTTP_OK /\ HasLabel(inv[i].resp))
            /\ inv[i].ad # None =>
                  /\ inv[i].ad = Some(inv[i].resp.data)
                  /\ Replies(inv[i])[1].buttons[1][1].text \notin {Absent, Null, ""}

\* A 200 with a labelled object whose other fields are null or empty: the
\* payload is returned.
C8_Witness ==
    \E i \in DOMAIN inv :
        /\ inv[i].resp.status = HTTP_OK /\ HasLabel(inv[i].resp)
        /\ inv[i].resp.data["click_url"] = Null /\ inv[i].resp.data["text_html"] = ""
        /\ inv[i].ad = Some(inv[i].resp.data)

\* C9: no handler invocation ends by an exception that leaves it.
C9_NoHandlerRaises == \A i \in DOMAIN inv : inv[i].pc # "raised"

\* The keyboard of the ad message of an invocation, and the payload it got.
Keyboard(r) == Replies(r)[1].buttons

\* What C10 says of the primary button and of the size of the keyboard.
PrimaryRight(r) ==
    LET ad == r.resp.data
        kb == Keyboard(r)
    IN  /\ Len(kb) \in {1, 2}
        /\ \A row \in 1..Len(kb) : Len(kb[row]) = 1
        /\ kb[1][1].text = ad["button_name"]
        /\ kb[1][1].url = (IF ad["click_url"] = Absent THEN FALLBACK_URL ELSE ad["click_url"])

\* C10, as stated: the reward button is there exactly when both reward
\* fields are present.
C10_RewardIffPresent ==
    \A i \in DOMAIN inv :
        inv[i].ad # None =>
            /\ PrimaryRight(inv[i])
            /\ Len(Keyboard(inv[i])) = 2 <=>
                  /\ inv[i].resp.data["button_reward_name"] # Absent
                  /\ inv[i].resp.data["reward_url"] # Absent

\* C10, amended: the reward button is there exactly when both reward fields
\* are present and non-empty, and it then carries them.
C10_RewardIffNonEmpty ==
    \A i \in DOMAIN inv :
        inv[i].ad # None =>
            LET ad == inv[i].resp.data
                kb == Keyboard(inv[i])
            IN  /\ PrimaryRight(inv[i])
                /\ Len(kb) = 2 <=>
                      /\ ad["button_reward_name"] \notin {Absent, Null, ""}
                      /\ ad["reward_url"] \notin {Absent, Null, ""}
                /\ Len(kb) = 2 =>
                      /\ kb[2][1].text = ad["button_reward_name"]
                      /\ kb[2][1].url = ad["reward_url"]

\* An ad without click_url and with both reward fields: two buttons, the
\* first on the fallback URL.
C10_Witness ==
    \E i \in DOMAIN inv :
        /\ inv[i].ad # None
        /\ inv[i].resp.data["click_url"] = Absent
        /\ Len(Keyboard(inv[i])) = 2
        /\ Keyboard(inv[i])[1][1].url = FALLBACK_URL
        /\ Keyboard(inv[i])[2][1].text = "Claim"

\* The ad message of an invocation that got a payload.
AdMessage(r) == Replies(r)[1]

\* C11, as stated: the ad is a photo with caption exactly when image_url is
\* present, a text message otherwise; the body is text_html when present and
\* "Sponsored" otherwise; the message asks for forward protection.
C11_PhotoIffPresent ==
    \A i \in DOMAIN inv :
        inv[i].ad # None =>
            LET ad == inv[i].resp.data
                msg == AdMessage(inv[i])
            IN  /\ msg.op = (IF ad["image_url"] # Absent THEN "reply_photo" ELSE "reply_text")
                /\ msg.text = (IF ad["text_html"] # Absent THEN ad["text_html"] ELSE SPONSORED)
                /\ msg.protect_content

\* C11, amended: the same with "present and non-empty" (not null, not "")
\* for image_url and for text_html; the photo sent is image_url.
C11_PhotoIffNonEmpty ==
    \A i \in DOMAIN inv :
        inv[i].ad # None =>
            LET ad == inv[i].resp.data
                msg == AdMessage(inv[i])
                has_image == ad["image_url"] \notin {Absent, Null, ""}
                has_text == ad["text_html"] \notin {Absent, Null, ""}
            IN  /\ msg.op = (IF has_image THEN "reply_photo" ELSE "reply_text")
                /\ msg.photo = (IF has_image THEN ad["image_url"] ELSE Absent)
                /\ msg.text = (IF has_text THEN ad["text_html"] ELSE SPONSORED)
                /\ msg.parse_mode = "HTML"
                /\ msg.protect_content

\* An ad with no image and an empty text_html: a protected text message
\* that reads "Sponsored".
C11_Witness ==
    \E i \in DOMAIN inv :
        /\ inv[i].ad # None
        /\ inv[i].resp.data["image_url"] = Absent
        /\ inv[i].resp.data["text_html"] = ""
        /\ AdMessage(inv[i]).op = "reply_text"
        /\ AdMessage(inv[i]).text = SPONSORED
        /\ AdMessage(inv[i]).protect_content

\* C12: the first call of every button invocation is query.answer(), whatever
\* its callback data and however it ends; while it stands at that await it
\* has made no cooldown check, no fetch and no reply.
C12_AnsweredFirst ==
    \A i \in DOMAIN inv :
        inv[i].kind = "button" =>
            /\ Len(inv[i].calls) >= 1
            /\ inv[i].calls[1] = AnswerCall
            /\ \A k \in 2..Len(inv[i].calls) : inv[i].calls[k] # AnswerCall
            /\ inv[i].pc = "answer" =>
                  /\ inv[i].cooldown = "none"
                  /\ inv[i].fetches = 0
                  /\ Replies(inv[i]) = <<>>
                  /\ \A k \in Logged : reqs[k].id # i

\* A tap on Show Ads that was rejected by the cooldown: acknowledged, then
\* the wait notice.
C12_Witness ==
    \E i \in DOMAIN inv :
        /\ inv[i].kind = "button" /\ inv[i].data = SHOW_ADS
        /\ inv[i].cooldown = "wait"
        /\ inv[i].calls = <<AnswerCall, Notice(WAIT_NOTICE)>>

\* A tap with other callback data: it ended with the acknowledgement alone.
C12_WitnessOtherData ==
    \E i \in DOMAIN inv :
        /\ inv[i].kind = "button" /\ inv[i].data # SHOW_ADS
        /\ inv[i].pc = "done" /\ inv[i].calls = <<AnswerCall>>

\* The value of an environment variable is missing or empty.
Unset(o) == o = None \/ Len(o[1]) = 0

\* The value is set and has a character that is not a digit.
NotAllDigits(o) == o # None /\ \E k \in 1..Len(o[1]) : o[1][k] \notin Digits

\* C13: when the token the module read is missing or empty, or the block id
\* it read is missing, empty or not all digits, the process never polls: once
\* the module level code has run it stands at the configuration error, and
\* no update is ever taken up.
C13_BadConfigNeverPolls ==
    (Unset(env[TOKEN_KEY]) \/ Unset(env[BLOCK_KEY]) \/ NotAllDigits(env[BLOCK_KEY]))
        => /\ phase \in {"import", "config_error"}
           /\ seen = 0 /\ inv = <<>> /\ reqs = <<>> /\ _last_ad_at = <<>>

\* The start-up ended in the configuration error on a block id that begins
\* with a digit and is not numeric.
C13_Witness ==
    /\ phase = "config_error"
    /\ ~Unset(env[TOKEN_KEY])
    /\ env[BLOCK_KEY] = Some(<<"4", "x">>)

\* C14: when the environment sets BOT_TOKEN to a non-empty token and
\* BLOCK_ID to an all-digit block id, the names the configuration comment
\* documents, the start-up passes the check and the process polls.
C14_ConfiguredReachesPolling ==
    (/\ ~Unset(env["BOT_TOKEN"])
     /\ ~Unset(env["BLOCK_ID"]) /\ ~NotAllDigits(env["BLOCK_ID"])
     /\ phase # "import")
        => phase = "polling"

\* The three kinds of reply to an ad request.
IsWaitReply(r, c) == r.cooldown = "wait" /\ r.fetches = 0 /\ c = Notice(WAIT_NOTICE)

IsNoAdReply(r, c) == r.cooldown = "ok" /\ r.fetches = 1 /\ r.ad = None /\ c = Notice(NO_AD_NOTICE)

IsAdReply(r, c) ==
    /\ r.cooldown = "ok" /\ r.fetches = 1 /\ r.ad # None
    /\ c.op \in {"reply_photo", "reply_text"}
    /\ c.protect_content
    /\ Len(c.buttons) >= 1
    /\ c.buttons[1][1].text = r.ad[1]["button_name"]

\* C15: an ad request whose handler returned made exactly one reply: the
\* wait notice (rejected, no fetch), the no-ad notice (allowed, the fetch
\* gave nothing) or one ad message (allowed, the fetch gave a payload), and
\* never more than one of the three.
C15_ExactlyOneReply ==
    \A i \in DOMAIN inv :
        (IsAdRequest(inv[i]) /\ inv[i].pc = "done") =>
            LET rs == Replies(inv[i])
            IN  /\ Len(rs) = 1
                /\ Cardinality({kind \in {"wait", "no_ad", "ad"} :
                        \/ kind = "wait" /\ IsWaitReply(inv[i], rs[1])
                        \/ kind = "no_ad" /\ IsNoAdReply(inv[i], rs[1])
                        \/ kind = "ad" /\ IsAdReply(inv[i], rs[1])}) = 1

\* A tap on Show Ads that was allowed and got an ad: its handler returned
\* after the acknowledgement and one ad message.
C15_Witness ==
    \E i \in DOMAIN inv :
        /\ inv[i].kind = "button" /\ inv[i].data = SHOW_ADS /\ inv[i].pc = "done"
        /\ Len(inv[i].calls) = 2
        /\ IsAdReply(inv[i], inv[i].calls[2])

\* C16: while the fetch of one user's request is outstanding, an update of
\* another user can be taken up (here: a /start, the handler that needs
\* nothing but the event loop), even under a host that runs handlers
\* concurrently.
C16_OthersServedDuringFetch ==
    \A i \in DOMAIN inv :
        (inv[i].pc = "fetch" /\ Overlapping /\ seen < MaxEvents)
            => \A u \in Users \ {inv[i].user} : ENABLED start(u)

\* The log entry of invocation i.
EntryOf(i) == CHOOSE k \in Logged : reqs[k].id = i

\* An allowed request whose fetch was made and gave no ad.
AllowedUnserved(k) == reqs[k].ok /\ reqs[k].fetches = 1 /\ reqs[k].ad_at = NoTime

\* C17: the time of an allowed request is in the map before its fetch
\* returns, and it stays there when the fetch gives nothing: the next request
\* of the user less than 8 seconds after an allowed request that got no ad is
\* rejected, fetches nothing and is answered with the wait notice.
C17_CooldownStartsAtCheck ==
    /\ \A i \in DOMAIN inv :
          inv[i].pc = "fetch" =>
              /\ inv[i].user \in DOMAIN _last_ad_at
              /\ _last_ad_at[inv[i].user] = reqs[EntryOf(i)].at
    /\ \A k \in Logged :
          (AllowedUnserved(k) /\ \A m \in Logged : (m > k /\ SameUser(k, m)) => ~reqs[m].ok)
              => (reqs[k].user \in DOMAIN _last_ad_at /\ _last_ad_at[reqs[k].user] = reqs[k].at)
    /\ \A k, j \in Logged :
          (Successive(k, j) /\ AllowedUnserved(k) /\ Gap(k, j) < COOLDOWN_SECONDS)
              => /\ ~reqs[j].ok
                 /\ reqs[j].fetches = 0
                 /\ reqs[j].id \in DOMAIN inv => Replies(inv[reqs[j].id]) = <<Notice(WAIT_NOTICE)>>

\* An allowed request met a transport error and was answered with the no-ad
\* notice; the user's next request, 7 seconds later, got the wait notice.
C17_Witness ==
    \E k, j \in Logged :
        /\ Successive(k, j) /\ AllowedUnserved(k)
        /\ Gap(k, j) = COOLDOWN_SECONDS - 1
        /\ ~reqs[j].ok
        /\ reqs[j].id \in DOMAIN inv
        /\ inv[reqs[j].id].pc = "done"
        /\ Replies(inv[reqs[j].id]) = <<Notice(WAIT_NOTICE)>>

\* The step is the cooldown check of a request, with the given result.
Checked(ok) == Len(reqs') = Len(reqs) + 1 /\ reqs'[Len(reqs')].ok = ok

\* k is the last allowed request of its user before request j.
LastAllowedBefore(k, j) ==
    /\ k < j /\ SameUser(k, j) /\ reqs[k].ok
    /\ \A m \in Logged : (k < m /\ m < j /\ SameUser(k, m)) => ~reqs[m].ok

\* C18: the step that rejects a request leaves the whole map as it was; and
\* a request made 8 seconds or more after the last allowed request of its
\* user is allowed, however many rejected requests lie between the two.
C18_RejectedLeavesMap ==
    /\ [][Checked(FALSE) => _last_ad_at' = _last_ad_at]_vars
    /\ [](\A k, j \in Logged :
            (LastAllowedBefore(k, j) /\ Gap(k, j) >= COOLDOWN_SECONDS) => reqs[j].ok)

\* A user's request is allowed, the next, 7 seconds later, is rejected, and
\* the third, 7 seconds after the second, is allowed: the rejected one did not
\* move the time in the map.
C18_Witness ==
    \E k, m, j \in Logged :
        /\ Successive(k, m) /\ Successive(m, j)
        /\ reqs[k].ok /\ ~reqs[m].ok /\ reqs[j].ok
        /\ Gap(k, m) < COOLDOWN_SECONDS /\ Gap(m, j) < COOLDOWN_SECONDS
        /\ _last_ad_at[reqs[j].user] = reqs[j].at

\* The step leaves the entry of user u (or its absence) as it was.
EntryKept(u) ==
    /\ u \in DOMAIN _last_ad_at <=> u \in DOMAIN _last_ad_at'
    /\ u \in DOMAIN _last_ad_at => _last_ad_at'[u] = _last_ad_at[u]

\* The step takes up a /start, a /help or a tap with other callback data.
TakesUpOther ==
    /\ seen' = seen + 1
    /\ \/ inv'[seen'].kind \in {"start", "help"}
       \/ inv'[seen'].kind = "button" /\ inv'[seen'].data # SHOW_ADS

\* C19: no step removes an entry of the map; a step changes the entry of a
\* user only when it is the cooldown check of an allowed ad request of that
\* user, and then it sets it to the time of the check; taking up /start,
\* /help or a tap with other data changes nothing in the map.
C19_EntriesIsolated ==
    /\ [][\A u \in Users :
             /\ u \in DOMAIN _last_ad_at => u \in DOMAIN _last_ad_at'
             /\ ~EntryKept(u) =>
                   /\ Checked(TRUE)
                   /\ reqs'[Len(reqs')].user = u
                   /\ _last_ad_at'[u] = reqs'[Len(reqs')].at]_vars
    /\ [][TakesUpOther => _last_ad_at' = _last_ad_at]_vars

\* Both users have an entry, written at different times, the second user's
\* written while the first user's was there; then a /start was handled.
C19_Witness ==
    /\ DOMAIN _last_ad_at = Users
    /\ \E k, j \in Logged :
          /\ k < j /\ reqs[k].user # reqs[j].user /\ reqs[k].ok /\ reqs[j].ok
          /\ reqs[k].at # reqs[j].at
          /\ _last_ad_at[reqs[k].user] = reqs[k].at
          /\ _last_ad_at[reqs[j].user] = reqs[j].at
    /\ \E i \in DOMAIN inv : inv[i].kind = "start" /\ inv[i].pc = "done"

====
